---- MODULE Spec2Model ----
(***************************************************************************)
(* RTMP-to-HLS server: the stream registry (server/manager.go), the RTMP   *)
(* acceptor and the per-connection publish session (server/rtmp.go).       *)
(*                                                                         *)
(* A connection is identified by the number the accept loop hands out; a   *)
(* Stream object is identified by the session that created it (a session   *)
(* calls GetOrCreateStream at most once), a Muxer object by the session    *)
(* whose StartMuxer call constructed it, an accept loop and its listener   *)
(* by the Start() call that created them.  0 is the nil reference.         *)
(***************************************************************************)
EXTENDS Integers, Sequences, FiniteSets, TLC

(* ---------------------------------------------------------------- bounds *)
\* connections that clients open over a run
MaxConns == 2
\* successful Start() calls over a run
MaxStarts == 1
\* ticks of wall-clock time over a run
MaxTime == 1
\* clock ticks in one second
TicksPerSecond == 1
\* ticks of wall-clock time over a run of the bitrate meter alone
MeterTime == 3
\* bytes the bitrate meter accumulates between two recomputations
MeterBytes == 6
\* tracks a publisher announces
MaxTracks == 1
\* media units a publisher sends
MaxUnits == 1
\* payload bytes of one media unit
UnitBytes == 3
\* characters of a URL path handed to extractStreamKey
MaxPath == 4
\* successful Start() calls over a run of the acceptor alone
AccStarts == 2
\* tracks the publisher announces when one connection is followed alone
OneTracks == 2
\* media units the publisher sends when one connection is followed alone
OneUnits == 2

Conns == 1..MaxConns
\* accept loops: one for each successful Start()
Gens == 1..(IF AccStarts > MaxStarts THEN AccStarts ELSE MaxStarts)
Keys == {"a", "b"}
NoKey == "-"
TrackKinds == {"h264p", "h264", "aac", "other"}
UnitKinds == {"video", "audio"}

RECURSIVE SeqsUpTo(_, _)
SeqsUpTo(S, n) ==
  IF n = 0 THEN {<<>>}
  ELSE LET shorter == SeqsUpTo(S, n - 1)
       IN shorter \cup {Append(q, x) : q \in {r \in shorter : Len(r) = n - 1}, x \in S}

TrackLists == SeqsUpTo(TrackKinds, MaxTracks)
OneTrackLists == SeqsUpTo(TrackKinds, OneTracks)

\* URL paths are sequences of characters; "/" is the separator
Chars == {"/", "a", "b"}
Paths == SeqsUpTo(Chars, MaxPath)
\* the literal "default"
DefaultKey == <<"d", "e", "f", "a", "u", "l", "t">>
\* xkey before extractStreamKey has returned
NoXKey == <<"-">>

VARIABLES
  \* RTMPServer
  running, listener, openLis, wg,
  \* callers of Start()/Stop()
  starts, ctl, stopReturned,
  \* acceptLoop goroutines
  loopPc, loopLis, loopConn, nextConn,
  \* handleConnection goroutines
  pc, scPublish, key, sref, cause, vcb, acb, wmux, wts, units, connClosed,
  \* Manager, Stream and Muxer objects
  streams, st, mux,
  \* wall clock
  now,
  \* history of calls
  getCalls, removeCalls, doneCalls, removed, noEntry,
  \* a caller of extractStreamKey
  path, xkey,
  \* the /live/ handler goroutine of the HTTP server
  hpc, hkey, href, hmux, hres,
  \* the latest value GetAllStreams returned to a caller
  snap,
  \* the latest value GetBitrate returned to a caller
  rateSeen,
  \* what an observer of the write operations saw of a connection: the kind of
  \* the unit last dispatched, the result of the Muxer's last write, and the
  \* error entries the write operations have logged
  wkind, wres, wlog,
  \* where each task stands in its sequence of lock and unlock calls
  lpc,
  \* HTTPServer: the running flag and the state of the background listen call
  hrun, hlisten,
  \* what the latest call of RTMPServer.Start(), RTMPServer.Stop() or
  \* HTTPServer.Start() returned
  ctlRet

accVars == <<running, listener, openLis, wg>>
ctlVars == <<starts, ctl, stopReturned>>
loopVars == <<loopPc, loopLis, loopConn, nextConn>>
sesVars == <<pc, scPublish, key, sref, cause, vcb, acb, wmux, wts, units, connClosed>>
regVars == <<streams, st, mux>>
histVars == <<getCalls, removeCalls, doneCalls, removed, noEntry>>
keyVars == <<path, xkey>>
httpVars == <<hpc, hkey, href, hmux, hres>>
obsVars == <<wkind, wres, wlog>>
sideVars == <<lpc, hrun, hlisten, ctlRet>>
extVars == <<keyVars, httpVars, snap, rateSeen, obsVars, sideVars>>
vars == <<accVars, ctlVars, loopVars, sesVars, regVars, now, histVars, extVars>>

\* ntpStart of a Stream before StartMuxer recorded it: the zero time.Time,
\* which no reading of the clock equals
NoAnchor == -1

(* ------------------------------------------------------- Stream, Manager *)
\* the zero Stream: no object allocated under this identity yet
NoStream ==
  [Key |-> NoKey, StartTime |-> 0, Active |-> FALSE, Muxer |-> 0,
   sps |-> 0, audio |-> 0, ntpStart |-> NoAnchor, muxerReady |-> FALSE,
   bytesTotal |-> 0, lastUpdate |-> 0, bitrate |-> 0]

\* variant: the creation time is left at its zero value
NewStream_NoStartTime(k, t) ==
  [NoStream EXCEPT !.Key = k, !.Active = TRUE, !.lastUpdate = t]

\* &Stream{Key, StartTime: time.Now(), Active: true, lastUpdate: time.Now()}
NewStream(k, t) ==
  [NoStream EXCEPT !.Key = k, !.StartTime = t, !.Active = TRUE, !.lastUpdate = t]

\* variant: the lookup of an existing entry is skipped
ExistingActive_Never(k) == FALSE

\* s, exists := m.streams[streamKey]; exists && s.Active
ExistingActive(k) == streams[k] # 0 /\ st[streams[k]].Active

\* the Stream GetOrCreateStream(k) returns when called by session c
GetOrCreateResult(c, k) == IF ExistingActive(k) THEN streams[k] ELSE c

\* the registry and the heap after GetOrCreateStream(k) called by session c
GetOrCreateStreams(c, k) ==
  IF ExistingActive(k) THEN streams ELSE [streams EXCEPT ![k] = c]

GetOrCreateHeap(c, k) ==
  IF ExistingActive(k) THEN st ELSE [st EXCEPT ![c] = NewStream(k, now)]

\* variant: the entry is marked inactive but stays in the map
RemoveStreams_NoDelete(k) == streams

\* delete(m.streams, streamKey)
RemoveStreams(k) == [streams EXCEPT ![k] = 0]

\* history: the Stream that the latest effective RemoveStream(k) removed
RemoveHistory(k) == IF streams[k] # 0 THEN [removed EXCEPT ![k] = streams[k]] ELSE removed

\* history: the keys for which a RemoveStream call found no entry
RemoveMisses(k) == IF streams[k] # 0 THEN noEntry ELSE noEntry \cup {k}

\* s.Active = false on the entry found under k
RemoveHeap(k) ==
  IF streams[k] # 0 THEN [st EXCEPT ![streams[k]].Active = FALSE] ELSE st

\* if s.Muxer != nil { s.Muxer.Close() } on the entry found under k
RemoveMux(k) ==
  IF streams[k] # 0 /\ st[streams[k]].Muxer # 0
  THEN [mux EXCEPT ![st[streams[k]].Muxer] = "closed"]
  ELSE mux

\* a Stream that neither the registry nor a session nor the /live/ handler
\* refers to any more is reclaimed: its identity goes back to the zero Stream
Collect(heap, reg, refs) ==
  [i \in Conns |->
     IF (\E k \in Keys : reg[k] = i) \/ (\E c \in Conns : refs[c] = i) \/ href = i
     THEN heap[i] ELSE NoStream]

\* Manager.GetStream
GetStream(k) == streams[k]

\* Manager.GetAllStreams: the keys of the StreamInfo values returned
GetAllStreams == {k \in Keys : streams[k] # 0 /\ st[streams[k]].Active}

\* variant: the Active field of the StreamInfo is left at its zero value
StreamInfoOf_NoActive(s) ==
  [Key |-> s.Key, StartTime |-> s.StartTime, Bitrate |-> s.bitrate, Active |-> FALSE]

\* StreamInfo{Key: s.Key, StartTime: s.StartTime, Bitrate: s.GetBitrate(), Active: s.Active}
StreamInfoOf(s) ==
  [Key |-> s.Key, StartTime |-> s.StartTime, Bitrate |-> s.bitrate, Active |-> s.Active]

\* Manager.GetAllStreams: the StreamInfo values returned, in no particular order
AllStreamInfos == {StreamInfoOf(st[streams[k]]) : k \in GetAllStreams}

\* Manager.StreamCount
StreamCount == Cardinality({k \in Keys : streams[k] # 0 /\ st[streams[k]].Active})

\* variant: the accumulator is not reset when the rate is recomputed
UpdateBitrate_KeepTotal(s, n) ==
  LET total == s.bytesTotal + n
      elapsed == now - s.lastUpdate
  IN IF elapsed >= TicksPerSecond
     THEN [s EXCEPT !.bitrate = (total * TicksPerSecond) \div elapsed,
                    !.bytesTotal = total, !.lastUpdate = now]
     ELSE [s EXCEPT !.bytesTotal = total]

\* Stream.updateBitrate on the Stream s with n bytes: elapsed is in ticks, so
\* int64(float64(bytesTotal) / elapsed.Seconds()) is total * ticks-per-second
\* over elapsed, truncated
UpdateBitrate(s, n) ==
  LET total == s.bytesTotal + n
      elapsed == now - s.lastUpdate
  IN IF elapsed >= TicksPerSecond
     THEN [s EXCEPT !.bitrate = (total * TicksPerSecond) \div elapsed,
                    !.bytesTotal = 0, !.lastUpdate = now]
     ELSE [s EXCEPT !.bytesTotal = total]

(* ------------------------------------------------------ extractStreamKey *)
\* strings.TrimPrefix(path, "/")
TrimPrefix(p) == IF Len(p) >= 1 /\ p[1] = "/" THEN Tail(p) ELSE p

\* strings.Split(path, "/"): the pieces between the separators, empty pieces
\* included; a path without separator is its own single piece
RECURSIVE Split(_)
Split(p) ==
  IF \A i \in 1..Len(p) : p[i] # "/"
  THEN <<p>>
  ELSE LET i == CHOOSE j \in 1..Len(p) : p[j] = "/" /\ \A h \in 1..(j - 1) : p[h] # "/"
       IN <<SubSeq(p, 1, i - 1)>> \o Split(SubSeq(p, i + 1, Len(p)))

\* variant: the first piece is taken
PickPart_First(parts) == parts[1]

\* parts[len(parts)-1]
PickPart(parts) == parts[Len(parts)]

extractStreamKey(p) ==
  LET parts == Split(TrimPrefix(p))
  IN IF Len(parts) >= 2 THEN PickPart(parts)
     ELSE IF Len(parts) = 1 /\ parts[1] # <<>> THEN parts[1]
     ELSE DefaultKey

(* ------------------------------------------------------------------ Init *)
\* the server before Start(): no listener, no accept loop
InitServer ==
  /\ running = FALSE /\ listener = 0 /\ openLis = {} /\ wg = 0
  /\ starts = 0 /\ ctl = "idle" /\ stopReturned = FALSE
  /\ loopPc = [g \in Gens |-> "none"]
  /\ loopLis = [g \in Gens |-> 0]
  /\ loopConn = [g \in Gens |-> 0]
  /\ nextConn = 1

\* the locals of a connection's goroutine before it runs, and the history
InitLocals ==
  /\ scPublish = [c \in Conns |-> FALSE]
  /\ key = [c \in Conns |-> NoKey]
  /\ sref = [c \in Conns |-> 0]
  /\ cause = [c \in Conns |-> "none"]
  /\ vcb = [c \in Conns |-> 0]
  /\ acb = [c \in Conns |-> 0]
  /\ wmux = [c \in Conns |-> 0]
  /\ wts = [c \in Conns |-> 0]
  /\ units = [c \in Conns |-> 0]
  /\ connClosed = [c \in Conns |-> FALSE]
  /\ wkind = [c \in Conns |-> "none"]
  /\ wres = [c \in Conns |-> "none"]
  /\ wlog = [c \in Conns |-> 0]
  /\ getCalls = [c \in Conns |-> 0]
  /\ removeCalls = [c \in Conns |-> 0]
  /\ doneCalls = [c \in Conns |-> 0]

\* no connection accepted yet
InitSessions ==
  /\ pc = [c \in Conns |-> "init"]
  /\ InitLocals

\* NewManager(): an empty map
InitRegistry ==
  /\ streams = [k \in Keys |-> 0]
  /\ st = [c \in Conns |-> NoStream]
  /\ mux = [c \in Conns |-> "none"]
  /\ removed = [k \in Keys |-> 0]
  /\ noEntry = {}

\* no request is being handled, no listing and no bitrate has been read
InitHttp ==
  /\ hpc = "idle" /\ hkey = NoKey /\ href = 0 /\ hmux = 0 /\ hres = "none"
  /\ snap = {}
  /\ rateSeen = 0

\* the tasks that take locks
Tasks == {"s1", "s2", "lister", "handler", "stopper", "acceptor"}

\* no task has called anything; NewHTTPServer(): not running, no listen call
InitSide ==
  /\ lpc = [t \in Tasks |-> "idle"]
  /\ hrun = FALSE /\ hlisten = "none"
  /\ ctlRet = "none"

Init ==
  /\ InitServer /\ InitSessions /\ InitRegistry /\ InitHttp /\ InitSide
  /\ now = 0
  /\ path = <<>> /\ xkey = NoXKey

(* ------------------------------------------------------- RTMPServer.Start *)
\* net.Listen succeeds: a new listener, running = true, go r.acceptLoop().
\* The loop's evaluation of r.listener for its next Accept() call is taken
\* together with the step that brings the loop to the top of its body.
StartUpTo(n) ==
  /\ ctl = "idle"
  /\ ~running
  /\ starts < n
  /\ starts' = starts + 1
  /\ listener' = starts + 1
  /\ openLis' = openLis \cup {starts + 1}
  /\ running' = TRUE
  /\ loopPc' = [loopPc EXCEPT ![starts + 1] = "inAccept"]
  /\ loopLis' = [loopLis EXCEPT ![starts + 1] = starts + 1]
  /\ stopReturned' = FALSE
  /\ UNCHANGED <<extVars, wg, ctl, loopConn, nextConn, sesVars, regVars, now, histVars>>

\* Start() on a server that is not running
Start == StartUpTo(MaxStarts)

(* -------------------------------------------------------- RTMPServer.Stop *)
\* r.mu.Lock(); running = false; r.mu.Unlock()
StopClearRunning ==
  /\ ctl = "idle"
  /\ running
  /\ running' = FALSE
  /\ ctl' = "stopClosing"
  /\ UNCHANGED <<extVars, listener, openLis, wg, starts, stopReturned, loopVars, sesVars,
                 regVars, now, histVars>>

\* r.listener.Close()
StopCloseListener ==
  /\ ctl = "stopClosing"
  /\ openLis' = openLis \ {listener}
  /\ ctl' = "stopWaiting"
  /\ UNCHANGED <<extVars, running, listener, wg, starts, stopReturned, loopVars, sesVars,
                 regVars, now, histVars>>

\* r.wg.Wait() returns, Stop() returns
StopWaitReturn ==
  /\ ctl = "stopWaiting"
  /\ wg = 0
  /\ ctl' = "idle"
  /\ stopReturned' = TRUE
  /\ UNCHANGED <<extVars, accVars, starts, loopVars, sesVars, regVars, now, histVars>>

(* --------------------------------------------------- RTMPServer.acceptLoop *)
\* Accept() returns a connection
LoopAcceptConn(g) ==
  /\ loopPc[g] = "inAccept"
  /\ loopLis[g] \in openLis
  /\ nextConn <= MaxConns
  /\ loopPc' = [loopPc EXCEPT ![g] = "gotConn"]
  /\ loopConn' = [loopConn EXCEPT ![g] = nextConn]
  /\ nextConn' = nextConn + 1
  /\ UNCHANGED <<extVars, accVars, ctlVars, loopLis, sesVars, regVars, now, histVars>>

\* Accept() returns an error: the listener was closed
LoopAcceptErr(g) ==
  /\ loopPc[g] = "inAccept"
  /\ loopLis[g] \notin openLis
  /\ loopPc' = [loopPc EXCEPT ![g] = "gotErr"]
  /\ UNCHANGED <<extVars, accVars, ctlVars, loopLis, loopConn, nextConn, sesVars, regVars,
                 now, histVars>>

\* r.mu.Lock(); running := r.running; r.mu.Unlock(); return or continue
LoopCheckRunning(g) ==
  /\ loopPc[g] = "gotErr"
  /\ loopPc' = [loopPc EXCEPT ![g] = IF running THEN "inAccept" ELSE "exited"]
  /\ loopLis' = [loopLis EXCEPT ![g] = IF running THEN listener ELSE 0]
  /\ UNCHANGED <<extVars, accVars, ctlVars, loopConn, nextConn, sesVars, regVars, now, histVars>>

\* r.wg.Add(1); go r.handleConnection(conn)
LoopSpawn(g) ==
  /\ loopPc[g] = "gotConn"
  /\ wg' = wg + 1
  /\ pc' = [pc EXCEPT ![loopConn[g]] = "handshake"]
  /\ loopPc' = [loopPc EXCEPT ![g] = "inAccept"]
  /\ loopLis' = [loopLis EXCEPT ![g] = listener]
  /\ loopConn' = [loopConn EXCEPT ![g] = 0]
  /\ UNCHANGED <<extVars, running, listener, openLis, ctlVars, nextConn,
                 scPublish, key, sref, cause, vcb, acb, wmux, wts, units, connClosed,
                 regVars, now, histVars>>

(* ---------------------------------------------- RTMPServer.handleConnection *)
\* what a session step leaves alone outside the sessions and the registry
outside == <<accVars, ctlVars, loopVars, now>>

\* the goroutine leaves handleConnection's body before handlePublisher: the
\* deferred recover(), conn.Close() and wg.Done() are what is left to run
AbortConnection(c, why) ==
  /\ pc' = [pc EXCEPT ![c] = "closing"]
  /\ cause' = [cause EXCEPT ![c] = why]

\* sc.Initialize(): the handshake succeeds, fails, or faults
Handshake(c) ==
  /\ pc[c] = "handshake"
  /\ \/ pc' = [pc EXCEPT ![c] = "negotiate"] /\ UNCHANGED cause
     \/ AbortConnection(c, "handshakeFail")
     \/ AbortConnection(c, "panic")
  /\ UNCHANGED <<extVars, outside, regVars, histVars, scPublish, key, sref, vcb, acb, wmux, wts, units,
                 connClosed>>

\* variant: the intent is not looked at
IsPublish_Always(intent) == TRUE

\* if sc.Publish { r.handlePublisher(sc, conn) } else { rejected }
IsPublish(intent) == intent = "publish"

\* sc.Accept(): fails, faults, or yields the intent and the target's stream key
Negotiate(c) ==
  /\ pc[c] = "negotiate"
  /\ \/ AbortConnection(c, "acceptFail") /\ UNCHANGED <<key, scPublish>>
     \/ AbortConnection(c, "panic") /\ UNCHANGED <<key, scPublish>>
     \/ \E intent \in {"publish", "play"}, k \in Keys :
          /\ scPublish' = [scPublish EXCEPT ![c] = intent = "publish"]
          /\ IF IsPublish(intent)
             THEN /\ pc' = [pc EXCEPT ![c] = "publisher"]
                  /\ key' = [key EXCEPT ![c] = k]
                  /\ UNCHANGED cause
             ELSE AbortConnection(c, "notPublish") /\ UNCHANGED key
  /\ UNCHANGED <<extVars, outside, regVars, histVars, sref, vcb, acb, wmux, wts, units, connClosed>>

(* ----------------------------------------------- RTMPServer.handlePublisher *)
\* variant: RemoveStream is called at the end of the body instead of deferred
PublisherExit_NoDefer(why) == IF why = "panic" THEN "closing" ELSE "teardown"

\* variant: the defer is registered only after the segmenter was started
PublisherExit_StartFailLeak(why) == IF why = "startFail" THEN "closing" ELSE "teardown"

\* variant: a failed reader.Initialize() is retried from GetOrCreateStream
PublisherExit_Retry(why) == IF why = "readerInitFail" THEN "publisher" ELSE "teardown"

\* variant: the read loop does not look at the running flag
PublisherExit_IgnoreShutdown(why) == IF why = "shutdown" THEN "read" ELSE "teardown"

\* variant: a read error does not break out of the read loop
PublisherExit_ReadErrContinues(why) == IF why = "readErr" THEN "loop" ELSE "teardown"

\* where the goroutine goes when handlePublisher's body is left for the reason
\* `why` after the defer of line 169 was registered: the deferred RemoveStream
PublisherExit(why) == "teardown"

LeavePublisher(c, why) ==
  /\ pc' = [pc EXCEPT ![c] = PublisherExit(why)]
  /\ cause' = [cause EXCEPT ![c] = why]

\* stream, err := r.manager.GetOrCreateStream(streamKey); defer RemoveStream
GetOrCreate(c) ==
  /\ pc[c] = "publisher"
  /\ sref' = [sref EXCEPT ![c] = GetOrCreateResult(c, key[c])]
  /\ streams' = GetOrCreateStreams(c, key[c])
  /\ st' = GetOrCreateHeap(c, key[c])
  /\ getCalls' = [getCalls EXCEPT ![c] = @ + 1]
  /\ pc' = [pc EXCEPT ![c] = "readerInit"]
  /\ UNCHANGED <<extVars, outside, mux, removeCalls, doneCalls, removed, noEntry,
                 scPublish, key, cause, vcb, acb, wmux, wts, units, connClosed>>

\* case *codecs.H264: tracks for which a video callback is registered
NumVideo(ts) == Cardinality({i \in 1..Len(ts) : ts[i] \in {"h264p", "h264"}})

\* case *codecs.MPEG4Audio: tracks for which an audio callback is registered
NumAudio(ts) == Cardinality({i \in 1..Len(ts) : ts[i] = "aac"})

\* len(codec.SPS) > 0 && len(codec.PPS) > 0: H264 tracks that carry parameters
NumParams(ts) == Cardinality({i \in 1..Len(ts) : ts[i] = "h264p"})

\* the Stream after the loop over reader.Tracks(): SetVideoParams for an H264
\* track that carries SPS and PPS, SetAudioParams for every MPEG4Audio track
DiscoverStream(c, s, ts) ==
  [s EXCEPT !.sps = IF NumParams(ts) > 0 THEN c ELSE @,
            !.audio = IF NumAudio(ts) > 0 THEN c ELSE @]

\* reader.Initialize() fails or faults; or it succeeds and the tracks are walked
ReaderInitFrom(c, lists) ==
  /\ pc[c] = "readerInit"
  /\ \/ LeavePublisher(c, "readerInitFail") /\ UNCHANGED <<st, vcb, acb>>
     \/ LeavePublisher(c, "panic") /\ UNCHANGED <<st, vcb, acb>>
     \/ \E ts \in lists :
          /\ st' = [st EXCEPT ![sref[c]] = DiscoverStream(c, @, ts)]
          /\ vcb' = [vcb EXCEPT ![c] = NumVideo(ts)]
          /\ acb' = [acb EXCEPT ![c] = NumAudio(ts)]
          /\ pc' = [pc EXCEPT ![c] = IF NumVideo(ts) > 0 THEN "startMuxer" ELSE "loop"]
          /\ UNCHANGED cause
  /\ UNCHANGED <<extVars, outside, streams, mux, histVars, scPublish, key, sref, wmux, wts, units, connClosed>>

\* the publisher announces one of the lists of TrackLists
ReaderInit(c) == ReaderInitFrom(c, TrackLists)

\* Stream.StartMuxer up to s.Muxer = &gohlslib.Muxer{...}
StartMuxerBuild(c) ==
  /\ pc[c] = "startMuxer"
  /\ IF st[sref[c]].muxerReady
     THEN /\ pc' = [pc EXCEPT ![c] = "loop"]
          /\ UNCHANGED <<st, mux>>
     ELSE /\ st' = [st EXCEPT ![sref[c]].Muxer = c]
          /\ mux' = [mux EXCEPT ![c] = "created"]
          /\ pc' = [pc EXCEPT ![c] = "muxStarting"]
  /\ UNCHANGED <<extVars, outside, streams, histVars, scPublish, key, sref, cause, vcb, acb, wmux, wts, units,
                 connClosed>>

\* the Muxer after a successful Start()
MuxStarted(m) == IF mux[m] = "closed" THEN mux ELSE [mux EXCEPT ![m] = "started"]

\* variant: the ready flag is stored without recording the anchor
StartedStream_NoAnchor(s) == [s EXCEPT !.muxerReady = TRUE]

\* the Stream after Start() returned nil: s.ntpStart = time.Now();
\* s.muxerReady.Store(true)
StartedStream(s) == [s EXCEPT !.ntpStart = now, !.muxerReady = TRUE]

\* err := s.Muxer.Start(); on success ntpStart = time.Now(), muxerReady = true
StartMuxerStart(c) ==
  /\ pc[c] = "muxStarting"
  /\ \/ LeavePublisher(c, "startFail") /\ UNCHANGED <<st, mux>>
     \/ /\ mux' = MuxStarted(st[sref[c]].Muxer)
        /\ st' = [st EXCEPT ![sref[c]] = StartedStream(@)]
        /\ pc' = [pc EXCEPT ![c] = "loop"]
        /\ UNCHANGED cause
  /\ UNCHANGED <<extVars, outside, streams, histVars, scPublish, key, sref, vcb, acb, wmux, wts, units, connClosed>>

\* top of the read loop: r.mu.Lock(); running := r.running; r.mu.Unlock()
LoopCheck(c) ==
  /\ pc[c] = "loop"
  /\ IF running
     THEN pc' = [pc EXCEPT ![c] = "read"] /\ UNCHANGED cause
     ELSE LeavePublisher(c, "shutdown")
  /\ UNCHANGED <<extVars, outside, regVars, histVars, scPublish, key, sref, vcb, acb, wmux, wts, units, connClosed>>

\* callbacks registered for the track a unit of this kind belongs to
Callbacks(c, kind) == IF kind = "video" THEN vcb[c] ELSE acb[c]

\* variant: the write operations make no test before they write
Dropped_Never(s) == FALSE

\* Stream.WriteH264 / WriteAAC: !s.muxerReady.Load() || s.Muxer == nil
Dropped(s) == ~s.muxerReady \/ s.Muxer = 0

\* reader.Read() returns an error (deadline expiry, connection closed)
ReadError(c) ==
  /\ pc[c] = "read"
  /\ LeavePublisher(c, "readErr")
  /\ UNCHANGED <<extVars, outside, regVars, histVars, scPublish, key, sref, vcb, acb, wmux, wts, units, connClosed>>

\* reader.Read() faults outside the write operations' own recover()
ReadPanic(c) ==
  /\ pc[c] = "read"
  /\ LeavePublisher(c, "panic")
  /\ UNCHANGED <<extVars, outside, regVars, histVars, scPublish, key, sref, vcb, acb, wmux, wts, units, connClosed>>

\* the presentation time, in clock ticks, of the n-th unit of a connection: a
\* publisher stamps its units with increasing times
Pts(n) == n

\* reader.Read() dispatches one unit to the callback of its track, which runs
\* WriteH264 / WriteAAC up to the call of the Muxer's write
ReadUnitKind(c, n, kind) ==
  /\ pc[c] = "read"
  /\ units[c] < n
  /\ units' = [units EXCEPT ![c] = @ + 1]
  /\ IF Callbacks(c, kind) = 0 \/ Dropped(st[sref[c]])
     THEN /\ pc' = [pc EXCEPT ![c] = "loop"]
          /\ UNCHANGED <<st, wmux, wts>>
     ELSE /\ st' = [st EXCEPT ![sref[c]] = UpdateBitrate(@, UnitBytes)]
          /\ wmux' = [wmux EXCEPT ![c] = st[sref[c]].Muxer]
          /\ wts' = [wts EXCEPT ![c] = st[sref[c]].ntpStart + Pts(units[c] + 1)]
          /\ pc' = [pc EXCEPT ![c] = "writing"]
  /\ UNCHANGED <<keyVars, httpVars, snap, rateSeen, sideVars, outside, streams, mux, histVars,
                 scPublish, key, sref, cause, vcb, acb, connClosed>>

\* the publisher sends a video or an audio unit
ReadUnit(c) == \E kind \in UnitKinds : ReadUnitKind(c, MaxUnits, kind) /\ UNCHANGED obsVars

\* what the Muxer's write does: it returns nil, an error whose text names a
\* DTS that is not monotonic or cannot be extracted, another error, or faults
WriteResults == {"ok", "benign", "hard", "panic"}

\* variant: the write operations have no recover() of their own
AfterWrite_FaultEscapes(res) == IF res = "panic" THEN "teardown" ELSE "loop"

\* where the goroutine is after the write operation ended with `res`: errors
\* are only logged and the deferred recover() swallows a fault, so the
\* callback returns and reader.Read() returns nil
AfterWrite(res) == "loop"

\* the Muxer's write ends with `res` and the write operation returns
WriteReturnAs(c, res) ==
  /\ pc[c] = "writing"
  /\ wmux' = [wmux EXCEPT ![c] = 0]
  /\ wts' = [wts EXCEPT ![c] = 0]
  /\ pc' = [pc EXCEPT ![c] = AfterWrite(res)]
  /\ UNCHANGED <<keyVars, httpVars, snap, rateSeen, sideVars, outside, regVars, histVars,
                 scPublish, key, sref, cause, vcb, acb, units, connClosed>>

\* the Muxer's write returns (a result, an error that is logged or suppressed,
\* or a fault that the write operation's own recover() swallows)
WriteReturn(c) == \E res \in WriteResults : WriteReturnAs(c, res) /\ UNCHANGED obsVars

\* the deferred r.manager.RemoveStream(streamKey); handlePublisher returns and
\* its locals (streamKey, stream, reader and the callbacks) are gone
Teardown(c) ==
  /\ pc[c] = "teardown"
  /\ streams' = RemoveStreams(key[c])
  /\ sref' = [sref EXCEPT ![c] = 0]
  /\ st' = Collect(RemoveHeap(key[c]), streams', sref')
  /\ mux' = RemoveMux(key[c])
  /\ removeCalls' = [removeCalls EXCEPT ![c] = @ + 1]
  /\ pc' = [pc EXCEPT ![c] = "closing"]
  /\ key' = [key EXCEPT ![c] = NoKey]
  /\ vcb' = [vcb EXCEPT ![c] = 0]
  /\ acb' = [acb EXCEPT ![c] = 0]
  /\ units' = [units EXCEPT ![c] = 0]
  /\ removed' = RemoveHistory(key[c])
  /\ noEntry' = RemoveMisses(key[c])
  /\ UNCHANGED <<extVars, outside, getCalls, doneCalls, scPublish, cause, wmux, wts, connClosed>>

\* variant: wg.Done() is called at the end of the body instead of deferred
DoneOnExit_NotOnPanic(why) == IF why = "panic" THEN 0 ELSE 1

\* wg.Done() calls made when handleConnection is left for the reason `why`
DoneOnExit(why) == 1

\* handleConnection's deferred recover(), conn.Close() and r.wg.Done()
Closing(c) ==
  /\ pc[c] = "closing"
  /\ connClosed' = [connClosed EXCEPT ![c] = TRUE]
  /\ wg' = wg - DoneOnExit(cause[c])
  /\ doneCalls' = [doneCalls EXCEPT ![c] = @ + DoneOnExit(cause[c])]
  /\ pc' = [pc EXCEPT ![c] = "closed"]
  /\ cause' = [cause EXCEPT ![c] = "none"]
  /\ scPublish' = [scPublish EXCEPT ![c] = FALSE]
  /\ UNCHANGED <<extVars, running, listener, openLis, ctlVars, loopVars, now, regVars,
                 getCalls, removeCalls, removed, noEntry, key, sref, vcb, acb, wmux, wts, units>>

(* ------------------------------------------------------------ wall clock *)
Tick ==
  /\ now < MaxTime
  /\ now' = now + 1
  /\ UNCHANGED <<extVars, accVars, ctlVars, loopVars, sesVars, regVars, histVars>>

Next ==
  \/ Start
  \/ StopClearRunning
  \/ StopCloseListener
  \/ StopWaitReturn
  \/ \E g \in Gens : LoopAcceptConn(g)
  \/ \E g \in Gens : LoopAcceptErr(g)
  \/ \E g \in Gens : LoopCheckRunning(g)
  \/ \E g \in Gens : LoopSpawn(g)
  \/ \E c \in Conns : Handshake(c)
  \/ \E c \in Conns : Negotiate(c)
  \/ \E c \in Conns : GetOrCreate(c)
  \/ \E c \in Conns : ReaderInit(c)
  \/ \E c \in Conns : StartMuxerBuild(c)
  \/ \E c \in Conns : StartMuxerStart(c)
  \/ \E c \in Conns : LoopCheck(c)
  \/ \E c \in Conns : ReadError(c)
  \/ \E c \in Conns : ReadPanic(c)
  \/ \E c \in Conns : ReadUnit(c)
  \/ \E c \in Conns : WriteReturn(c)
  \/ \E c \in Conns : Teardown(c)
  \/ \E c \in Conns : Closing(c)
  \/ Tick

Spec == Init /\ [][Next]_vars

(* ------------------------------------------------ HTTPServer: /live/{key}/ *)
\* if r.Method == "OPTIONS" { w.WriteHeader(http.StatusOK); return }
LiveOptions(k) ==
  /\ hpc = "idle"
  /\ hkey' = k
  /\ hres' = "ok"
  /\ UNCHANGED <<accVars, ctlVars, loopVars, sesVars, regVars, now, histVars, keyVars, obsVars, sideVars,
                 hpc, href, hmux, snap, rateSeen>>

\* any other method: streamKey := parts[0]; stream := h.manager.GetStream(streamKey)
LiveLookup(k) ==
  /\ hpc = "idle"
  /\ hkey' = k
  /\ href' = GetStream(k)
  /\ hmux' = 0
  /\ hres' = "none"
  /\ hpc' = "looked"
  /\ UNCHANGED <<accVars, ctlVars, loopVars, sesVars, regVars, now, histVars, keyVars, obsVars, sideVars,
                 snap, rateSeen>>

\* variant: only the nil test is made
StreamGone_NilOnly(i) == i = 0

\* stream == nil || !stream.Active
StreamGone(i) == i = 0 \/ ~st[i].Active

\* http.NotFound(w, r); return: the handler's locals are gone
LiveNotFound ==
  /\ hres' = "notfound"
  /\ hpc' = "idle"
  /\ href' = 0
  /\ hmux' = 0
  /\ st' = [i \in Conns |-> IF href = i THEN Collect(st, streams, sref)[i] ELSE st[i]]

\* the first two operands of the handler's test, read without the lock
LiveCheckActive ==
  /\ hpc = "looked"
  /\ IF StreamGone(href)
     THEN LiveNotFound
     ELSE hpc' = "checked" /\ UNCHANGED <<href, hmux, hres, st>>
  /\ UNCHANGED <<accVars, ctlVars, loopVars, sesVars, streams, mux, now, histVars, keyVars, obsVars, sideVars,
                 hkey, snap, rateSeen>>

\* stream.Muxer == nil, then stream.Muxer.Handle(w, r), read without the lock
LiveCheckMuxer ==
  /\ hpc = "checked"
  /\ IF st[href].Muxer = 0
     THEN LiveNotFound
     ELSE /\ hmux' = st[href].Muxer
          /\ hres' = "delegated"
          /\ hpc' = "delegating"
          /\ UNCHANGED <<href, st>>
  /\ UNCHANGED <<accVars, ctlVars, loopVars, sesVars, streams, mux, now, histVars, keyVars, obsVars, sideVars,
                 hkey, snap, rateSeen>>

\* Muxer.Handle returns, and the handler with it
LiveHandleReturn ==
  /\ hpc = "delegating"
  /\ hpc' = "idle"
  /\ href' = 0
  /\ hmux' = 0
  /\ st' = [i \in Conns |-> IF href = i THEN Collect(st, streams, sref)[i] ELSE st[i]]
  /\ UNCHANGED <<accVars, ctlVars, loopVars, sesVars, streams, mux, now, histVars, keyVars, obsVars, sideVars,
                 hkey, hres, snap, rateSeen>>

\* the server is started and every connection of the run has been accepted
\* and handed to its goroutine; the accept loop waits in Accept()
InitServe ==
  /\ running = TRUE /\ listener = 1 /\ openLis = {1} /\ wg = MaxConns
  /\ starts = 1 /\ ctl = "idle" /\ stopReturned = FALSE
  /\ loopPc = [g \in Gens |-> IF g = 1 THEN "inAccept" ELSE "none"]
  /\ loopLis = [g \in Gens |-> IF g = 1 THEN 1 ELSE 0]
  /\ loopConn = [g \in Gens |-> 0]
  /\ nextConn = MaxConns + 1
  /\ pc = [c \in Conns |-> "handshake"]
  /\ InitLocals /\ InitRegistry /\ InitHttp /\ InitSide
  /\ now = 0
  /\ path = <<>> /\ xkey = NoXKey

\* the steps of the goroutine of connection c
SessionOf(c) ==
  \/ Handshake(c) \/ Negotiate(c) \/ GetOrCreate(c) \/ ReaderInit(c)
  \/ StartMuxerBuild(c) \/ StartMuxerStart(c) \/ LoopCheck(c)
  \/ ReadError(c) \/ ReadPanic(c) \/ ReadUnit(c) \/ WriteReturn(c)
  \/ Teardown(c) \/ Closing(c)

\* the steps of the connections' goroutines
SessionStep == \E c \in Conns : SessionOf(c)

NextServe ==
  \/ SessionStep
  \/ \E k \in Keys : LiveOptions(k)
  \/ \E k \in Keys : LiveLookup(k)
  \/ LiveCheckActive
  \/ LiveCheckMuxer
  \/ LiveHandleReturn

\* the sessions and the /live/ handler, the clock standing still
SpecServe == InitServe /\ [][NextServe]_vars

NextSessions == SessionStep \/ Tick

\* the sessions alone, under a running clock
SpecSessions == InitServe /\ [][NextSessions]_vars

\* a goroutine that returns from handlePublisher runs its deferred calls
FairTeardown == \A c \in Conns : WF_vars(Teardown(c))

SpecSessionsFair == InitServe /\ [][NextSessions]_vars /\ FairTeardown

\* a goroutine that can run is run; its blocking calls return, the reads by
\* their deadline at the latest
FairSessions == \A c \in Conns : WF_vars(SessionOf(c))

SpecSessionsLive == InitServe /\ [][NextSessions]_vars /\ FairSessions

(* ----------------------------- HTTPServer: /api/streams, /streams; the GUI *)
\* streams := h.manager.GetAllStreams(): the caller holds the returned slice
ListStreams ==
  /\ snap' = AllStreamInfos
  /\ UNCHANGED <<accVars, ctlVars, loopVars, sesVars, regVars, now, histVars, keyVars, obsVars, sideVars,
                 httpVars, rateSeen>>

NextList == SessionStep \/ ListStreams \/ Tick

\* the sessions and a caller of GetAllStreams, under a running clock
SpecList == InitServe /\ [][NextList]_vars

(* ------------------------------------------- the bitrate meter of a Stream *)
\* connection 1 publishes key "a" with an H264 track, its Muxer is started and
\* the session waits in reader.Read(); the other connections have not moved
InitMeter ==
  /\ running = TRUE /\ listener = 1 /\ openLis = {1} /\ wg = MaxConns
  /\ starts = 1 /\ ctl = "idle" /\ stopReturned = FALSE
  /\ loopPc = [g \in Gens |-> IF g = 1 THEN "inAccept" ELSE "none"]
  /\ loopLis = [g \in Gens |-> IF g = 1 THEN 1 ELSE 0]
  /\ loopConn = [g \in Gens |-> 0]
  /\ nextConn = MaxConns + 1
  /\ pc = [c \in Conns |-> IF c = 1 THEN "read" ELSE "handshake"]
  /\ scPublish = [c \in Conns |-> c = 1]
  /\ key = [c \in Conns |-> IF c = 1 THEN "a" ELSE NoKey]
  /\ sref = [c \in Conns |-> IF c = 1 THEN 1 ELSE 0]
  /\ cause = [c \in Conns |-> "none"]
  /\ vcb = [c \in Conns |-> IF c = 1 THEN 1 ELSE 0]
  /\ acb = [c \in Conns |-> 0]
  /\ wmux = [c \in Conns |-> 0]
  /\ wts = [c \in Conns |-> 0]
  /\ units = [c \in Conns |-> 0]
  /\ connClosed = [c \in Conns |-> FALSE]
  /\ wkind = [c \in Conns |-> "none"]
  /\ wres = [c \in Conns |-> "none"]
  /\ wlog = [c \in Conns |-> 0]
  /\ getCalls = [c \in Conns |-> IF c = 1 THEN 1 ELSE 0]
  /\ removeCalls = [c \in Conns |-> 0]
  /\ doneCalls = [c \in Conns |-> 0]
  /\ streams = [k \in Keys |-> IF k = "a" THEN 1 ELSE 0]
  /\ st = [c \in Conns |->
            IF c = 1
            THEN [NewStream("a", 0) EXCEPT !.Muxer = 1, !.sps = 1, !.muxerReady = TRUE]
            ELSE NoStream]
  /\ mux = [c \in Conns |-> IF c = 1 THEN "started" ELSE "none"]
  /\ removed = [k \in Keys |-> 0]
  /\ noEntry = {}
  /\ InitHttp /\ InitSide
  /\ now = 0
  /\ path = <<>> /\ xkey = NoXKey

\* s.updateBitrate(n) for a unit of n bytes
MeterUpdate(n) ==
  /\ st[1].bytesTotal + n <= MeterBytes
  /\ st' = [st EXCEPT ![1] = UpdateBitrate(@, n)]
  /\ UNCHANGED <<accVars, ctlVars, loopVars, sesVars, streams, mux, now, histVars, extVars>>

\* s.GetBitrate()
MeterRead ==
  /\ rateSeen' = st[1].bitrate
  /\ UNCHANGED <<accVars, ctlVars, loopVars, sesVars, regVars, now, histVars, keyVars, obsVars, sideVars,
                 httpVars, snap>>

\* time passes
MeterTick ==
  /\ now < MeterTime
  /\ now' = now + 1
  /\ UNCHANGED <<accVars, ctlVars, loopVars, sesVars, regVars, histVars, extVars>>

NextMeter ==
  \/ \E n \in 0..UnitBytes : MeterUpdate(n)
  \/ MeterRead
  \/ MeterTick

SpecMeter == InitMeter /\ [][NextMeter]_vars

(* --------------------------------------- callers of extractStreamKey alone *)
\* a caller holds any path and has not called yet
InitKey ==
  /\ InitServer /\ InitSessions /\ InitRegistry /\ InitHttp /\ InitSide
  /\ now = 0
  /\ path \in Paths /\ xkey = NoXKey

\* streamKey := extractStreamKey(sc.URL.Path)
ExtractKey ==
  /\ xkey = NoXKey
  /\ xkey' = extractStreamKey(path)
  /\ UNCHANGED <<accVars, ctlVars, loopVars, sesVars, regVars, now, histVars, path,
                 httpVars, snap, rateSeen, obsVars, sideVars>>

NextKey == ExtractKey

SpecKey == InitKey /\ [][NextKey]_vars

(* ------------------------------------------------------------ properties *)
\* session c is between its GetOrCreateStream call and the end of its teardown
InPublisher(c) ==
  pc[c] \in {"readerInit", "startMuxer", "muxStarting", "loop", "read", "writing", "teardown"}

\* the step in which session c calls GetOrCreateStream
GetOrCreateStep(c) == pc[c] = "publisher" /\ pc'[c] = "readerInit"

\* Stream objects allocated and not yet reclaimed
LiveStreams == {i \in Conns : st[i].Key # NoKey}

OneActivePerKey ==
  /\ \A i, j \in Conns :
       (st[i].Active /\ st[j].Active /\ st[i].Key = st[j].Key) => i = j
  /\ \A i \in Conns : st[i].Active => streams[st[i].Key] = i

\* C1: at most one Stream per key is active at any instant and it is the one
\* registered under the key; a GetOrCreate on a key with an active entry hands
\* out that entry, allocates nothing and leaves Count() alone, and on a key with
\* no entry it allocates exactly one Stream and raises Count() by exactly 1, so
\* of N racing callers one creates and the others receive its Stream.
C1_OneStreamPerKey ==
  [][/\ OneActivePerKey'
     /\ \A c \in Conns : GetOrCreateStep(c) =>
          /\ sref'[c] = GetStream(key[c])'
          /\ IF streams[key[c]] # 0 /\ st[streams[key[c]]].Active
             THEN /\ sref'[c] = streams[key[c]]
                  /\ LiveStreams' = LiveStreams
                  /\ StreamCount' = StreamCount
             ELSE /\ Cardinality(LiveStreams') = Cardinality(LiveStreams) + 1
                  /\ StreamCount' = StreamCount + 1]_vars

\* two sessions raced for one key and hold the same, single Stream
C1_Witness ==
  \E c, d \in Conns :
    /\ c # d /\ sref[c] # 0 /\ sref[c] = sref[d]
    /\ key[c] = key[d] /\ StreamCount = 1 /\ Cardinality(LiveStreams) = 1

\* C2: no two session tasks are inside a write to the same Stream's segmenter
\* at the same time.
C2_SingleWriter ==
  \A c, d \in Conns :
    (pc[c] = "writing" /\ pc[d] = "writing" /\ wmux[c] = wmux[d]) => c = d

\* C3: from GetOrCreate to its own teardown, a session's Stream stays active
\* and stays the entry registered under the session's key.
C3_StreamOutlivesSession ==
  \A c \in Conns :
    sref[c] # 0 => st[sref[c]].Active /\ streams[key[c]] = sref[c]

\* C4: a session that reached GetOrCreate invokes Remove(key) exactly once,
\* whatever ends it: no Remove before its teardown, none without a GetOrCreate,
\* and exactly one by the time the connection is being closed.
C4_RemoveExactlyOnce ==
  \A c \in Conns :
    /\ getCalls[c] <= 1
    /\ removeCalls[c] <= getCalls[c]
    /\ InPublisher(c) => getCalls[c] = 1 /\ removeCalls[c] = 0
    /\ pc[c] \in {"closing", "closed"} => removeCalls[c] = getCalls[c]

\* a session ended by a fault has called Remove once
C4_Witness ==
  \E c \in Conns :
    pc[c] = "closing" /\ cause[c] = "panic" /\ getCalls[c] = 1 /\ removeCalls[c] = 1

\* C5: when Stop() has returned, every connection the accept loop accepted has
\* had its session finish.
C5_StopDrains ==
  stopReturned => \A c \in Conns : c < nextConn => pc[c] = "closed"

\* C6: no orphaned entries: every registry entry belongs to a session that is
\* still between its GetOrCreate and its teardown, so with no such session the
\* registry is empty.
C6_NoOrphans ==
  /\ \A k \in Keys : streams[k] # 0 => InPublisher(streams[k])
  /\ (\A c \in Conns : ~InPublisher(c)) => \A k \in Keys : streams[k] = 0

\* a segmenter start failure was torn down and nothing is left in the registry
C6_Witness ==
  \E c \in Conns, k \in Keys :
    /\ pc[c] = "closing" /\ cause[c] = "startFail" /\ removed[k] = c
    /\ \A d \in Conns : ~InPublisher(d)
    /\ StreamCount = 0

FailedPublish == {"handshakeFail", "acceptFail", "readerInitFail", "startFail"}

C8_EarlyExitLeavesRegistry ==
  [][\A c \in Conns :
       /\ pc'[c] = "publisher" => scPublish'[c]
       /\ cause'[c] \in {"handshakeFail", "acceptFail", "notPublish"} =>
            getCalls'[c] = 0 /\ removeCalls'[c] = 0
       /\ (pc'[c] # pc[c] /\ (pc[c] \in {"handshake", "negotiate"} \/ getCalls[c] = 0)
           /\ pc[c] # "publisher") =>
            regVars' = regVars]_vars

\* a rejected non-publish connection beside a live entry of another session
C8_Witness ==
  \E c \in Conns :
    pc[c] = "closing" /\ cause[c] = "notPublish" /\ StreamCount = 1

\* what belongs to session d
SessionState(d) ==
  <<pc[d], scPublish[d], key[d], sref[d], cause[d], vcb[d], acb[d], wmux[d], units[d],
    connClosed[d], getCalls[d], removeCalls[d], doneCalls[d]>>

\* C9: a fault in one session ends only that session: the step changes nothing
\* of the acceptor, the accept loops, the registry or another session; the
\* faulting session goes on to its teardown when it had reached GetOrCreate;
\* every session closes its connection and signals the wait group exactly
\* once, so the wait group counts exactly the sessions still running.
C9_FaultIsolated ==
  [][/\ \A c \in Conns :
          (cause'[c] = "panic" /\ cause[c] # "panic") =>
            /\ UNCHANGED <<accVars, ctlVars, loopVars, regVars>>
            /\ \A d \in Conns \ {c} : SessionState(d)' = SessionState(d)
            /\ pc'[c] = IF getCalls[c] = 1 THEN "teardown" ELSE "closing"
     /\ \A c \in Conns :
          /\ doneCalls'[c] = IF pc'[c] = "closed" THEN 1 ELSE 0
          /\ connClosed'[c] = (pc'[c] = "closed")
     /\ wg' = Cardinality({c \in Conns : pc'[c] \notin {"init", "closed"}})]_vars

\* a session that faulted is through its Remove while another one is reading
C9_Witness ==
  \E c, d \in Conns :
    /\ pc[c] = "closing" /\ cause[c] = "panic" /\ removeCalls[c] = 1
    /\ pc[d] = "read" /\ \E g \in Gens : loopPc[g] = "inAccept"

\* C10: GetOrCreate on a key whose entry was not removed returns that very
\* Stream; after Remove, GetOrCreate returns a newly allocated Stream, distinct
\* from the removed one, active, created now, with no segmenter, ready flag,
\* codec parameters or bitrate.
C10_SameThenFresh ==
  [][\A c \in Conns : GetOrCreateStep(c) =>
       IF streams[key[c]] # 0
       THEN sref'[c] = streams[key[c]] /\ st' = st /\ streams' = streams
       ELSE /\ sref'[c] # removed[key[c]]
            /\ st[sref'[c]] = NoStream
            /\ streams' = [streams EXCEPT ![key[c]] = sref'[c]]
            /\ st' = [st EXCEPT ![sref'[c]] =
                        [Key |-> key[c], StartTime |-> now, Active |-> TRUE, Muxer |-> 0,
                         sps |-> 0, audio |-> 0, ntpStart |-> NoAnchor, muxerReady |-> FALSE,
                         bytesTotal |-> 0, lastUpdate |-> now, bitrate |-> 0]]]_vars

\* a Stream whose segmenter was closed by Remove, and a later Stream under the
\* same key
C10_Witness ==
  \E k \in Keys :
    /\ removed[k] # 0 /\ mux[removed[k]] = "closed"
    /\ streams[k] # 0 /\ streams[k] # removed[k]
    /\ st[streams[k]].StartTime > 0

\* the positions of the separator in q
Separators(q) == {i \in 1..Len(q) : q[i] = "/"}

\* C16: once extractStreamKey has returned, its result is determined by the
\* path alone: with one leading separator stripped, a path that still holds a
\* separator gives what follows its last separator, a non-empty path without
\* separator gives itself, the empty path gives "default"; in particular
\* "/a/b" gives "b", "/a" gives "a", "/" and "" give "default".
C16_KeyExtraction ==
  xkey # NoXKey =>
    LET q == IF Len(path) >= 1 /\ path[1] = "/" THEN SubSeq(path, 2, Len(path)) ELSE path
        last == CHOOSE i \in Separators(q) : \A j \in Separators(q) : j <= i
    IN /\ Separators(q) # {} => xkey = SubSeq(q, last + 1, Len(q))
       /\ (Separators(q) = {} /\ q # <<>>) => xkey = q
       /\ q = <<>> => xkey = DefaultKey
       /\ path = <<"/", "a", "/", "b">> => xkey = <<"b">>
       /\ path = <<"/", "a">> => xkey = <<"a">>
       /\ path = <<"/">> => xkey = DefaultKey
       /\ path = <<>> => xkey = DefaultKey

C16_Witness == path = <<"/", "a", "/", "b">> /\ xkey = <<"b">>

\* C13 as stated: every request for a key that has no registry entry when it
\* is answered is answered not-found.
C13_AnyRequestNotFound ==
  [][((hres' # hres \/ hkey' # hkey) /\ hres' # "none" /\ streams[hkey'] = 0)
       => hres' = "notfound"]_vars

\* C13: for a request of a method other than OPTIONS the /live/ handler looks
\* up the requested key; it answers not-found when the lookup gave no Stream,
\* when the Stream is inactive, and when the Stream has no Muxer; otherwise it
\* hands the request to the Muxer of that Stream, whose key is the requested
\* one, and to no Muxer of another key.  An OPTIONS request is answered 200
\* without a lookup.
C13_ServingBridge ==
  [][/\ (hpc = "idle" /\ hpc' = "looked") => href' = streams[hkey']
     /\ (hpc = "looked" /\ hpc' # "looked") =>
          IF href = 0 \/ ~st[href].Active
          THEN hres' = "notfound" /\ hpc' = "idle"
          ELSE hpc' = "checked" /\ href' = href
     /\ (hpc = "checked" /\ hpc' # "checked") =>
          IF st[href].Muxer = 0
          THEN hres' = "notfound" /\ hpc' = "idle"
          ELSE /\ hres' = "delegated" /\ hpc' = "delegating"
               /\ hmux' = st[href].Muxer
               /\ st[href].Key = hkey
               /\ \A i \in Conns : st[i].Muxer = hmux' => st[i].Key = hkey
     /\ ((hres' # hres \/ hkey' # hkey) /\ hres' = "ok") => UNCHANGED <<hpc, href, hmux, regVars>>
    ]_vars

C13_Witness ==
  /\ hpc = "delegating" /\ hres = "delegated"
  /\ href # 0 /\ st[href].Key = hkey /\ st[href].Muxer = hmux /\ mux[hmux] = "started"

\* C14: a request for a key is handed to a Muxer only if the key has had an
\* active Stream with its ready flag set during the request.  The Stream that
\* the handler looked up and that is still registered under the key has been
\* the key's Stream all through the request, and a ready flag is never
\* cleared, so that Stream has its ready flag set when the request is handed
\* over.
C14_NotFoundUnlessReady ==
  (hpc = "delegating" /\ streams[hkey] = href) => st[href].muxerReady

\* session c is in its read loop and registered no video callback
AudioOnly(c) == pc[c] \in {"loop", "read", "writing"} /\ vcb[c] = 0

\* C15: while a connection that announced no video track is in its read loop,
\* none of its units reaches a Muxer and no request for its key is handed to
\* a started Muxer (which answers it).
C15_AudioOnlyNeverServed ==
  \A c \in Conns :
    AudioOnly(c) =>
      /\ pc[c] # "writing"
      /\ ~(hpc = "delegating" /\ hkey = key[c] /\ mux[hmux] = "started")

\* the step in which session c calls RemoveStream
TeardownStep(c) == pc[c] = "teardown" /\ pc'[c] = "closing"

\* C11: RemoveStream(k) leaves no entry under k, so that a second
\* RemoveStream(k) meets a key without entry; called for a key without entry
\* it changes neither the map nor a Stream nor a Muxer; called for a key with
\* an entry it closes the Muxer of that entry, which was never closed before.
C11_RemoveIdempotent ==
  [][\A c \in Conns :
       TeardownStep(c) =>
         LET k == key[c]
             s == streams[k]
         IN /\ streams'[k] = 0
            /\ s = 0 =>
                 /\ streams' = streams /\ mux' = mux /\ removed' = removed
                 /\ \A i \in Conns : st'[i] = st[i] \/ (st'[i] = NoStream /\ sref[c] = i)
            /\ (s # 0 /\ st[s].Muxer # 0) =>
                 /\ mux[st[s].Muxer] # "closed"
                 /\ mux' = [mux EXCEPT ![st[s].Muxer] = "closed"]
            /\ (s # 0 /\ st[s].Muxer = 0) => mux' = mux
    ]_vars

\* a second RemoveStream(k) has found no entry after a first one had removed
\* the Stream and closed its Muxer
C11_Witness ==
  \E k \in Keys :
    /\ k \in noEntry /\ removed[k] # 0 /\ streams[k] = 0
    /\ \E m \in Conns : mux[m] = "closed"

\* C12: the value a caller holds from GetAllStreams changes only in a step
\* that is a GetAllStreams call and changes nothing else; it then holds, for
\* each key with an active entry and for no other key, a copy of the entry's
\* key, creation time, bitrate and active flag, the flag being set.  Right
\* after RemoveStream(k) the listing has no entry for k.
C12_ListingOnlyLive ==
  [][/\ snap' # snap =>
          /\ UNCHANGED <<sesVars, regVars, now>>
          /\ \A e \in snap' :
               /\ e.Active
               /\ streams[e.Key] # 0 /\ st[streams[e.Key]].Active
               /\ e.StartTime = st[streams[e.Key]].StartTime
               /\ e.Bitrate = st[streams[e.Key]].bitrate
          /\ \A k \in Keys :
               (streams[k] # 0 /\ st[streams[k]].Active) <=> (\E e \in snap' : e.Key = k)
     /\ \A c \in Conns :
          TeardownStep(c) => \A e \in AllStreamInfos' : e.Key # key[c]
    ]_vars

\* a caller still holds the entry of a key that was removed after the call,
\* with the bitrate it had at the call
C12_Witness ==
  \E e \in snap :
    /\ e.Active /\ e.Bitrate > 0
    /\ streams[e.Key] = 0 /\ removed[e.Key] # 0

\* C17: an update with n bytes made less than one second after the latest
\* recomputation adds n to the accumulator and leaves the rate and the time
\* of the latest recomputation alone; an update made one second or more
\* after it sets the rate to the accumulated bytes over the elapsed seconds,
\* truncated, empties the accumulator and records the time; reading the rate
\* returns it and changes nothing of the meter, and neither does the clock.
C17_BitrateMeter ==
  [][LET s == st[1]
         t == st'[1]
         elapsed == now - s.lastUpdate
     IN /\ t # s =>
             \E n \in 0..UnitBytes :
               IF elapsed < TicksPerSecond
               THEN /\ t.bytesTotal = s.bytesTotal + n /\ t.bytesTotal >= s.bytesTotal
                    /\ t.bitrate = s.bitrate /\ t.lastUpdate = s.lastUpdate
               ELSE /\ t.bitrate * elapsed <= (s.bytesTotal + n) * TicksPerSecond
                    /\ (s.bytesTotal + n) * TicksPerSecond < (t.bitrate + 1) * elapsed
                    /\ t.bytesTotal = 0 /\ t.lastUpdate = now
        /\ rateSeen' # rateSeen => (t = s /\ rateSeen' = s.bitrate)
        /\ now' # now => t = s
    ]_vars

\* the rate was recomputed with a truncated quotient, bytes were accumulated
\* since, and the rate was read
C17_Witness ==
  /\ st[1].bitrate = 2 /\ st[1].lastUpdate = 2 /\ st[1].bytesTotal > 0
  /\ rateSeen = 2 /\ now = 2

\* C18: once the ready flag of a Stream is set its anchor never changes; a
\* unit that a session hands to a callback of a ready Stream produces one
\* write, to the Stream's Muxer, stamped with the anchor plus the unit's
\* presentation time.
C18_AnchoredWrites ==
  [][/\ \A i \in Conns :
          (st[i].muxerReady /\ st'[i].muxerReady) => st'[i].ntpStart = st[i].ntpStart
     /\ \A c \in Conns :
          (pc[c] = "read" /\ units'[c] = units[c] + 1) =>
            IF pc'[c] = "writing"
            THEN /\ wmux'[c] = st[sref[c]].Muxer
                 /\ wts'[c] = st[sref[c]].ntpStart + Pts(units'[c])
            ELSE ~st[sref[c]].muxerReady \/ st[sref[c]].Muxer = 0 \/ vcb[c] = 0 \/ acb[c] = 0
    ]_vars

\* C19: at most one Muxer is constructed for a Stream: two sessions that hold
\* the same Stream have not both constructed one.
C19_SingleSegmenter ==
  \A c, d \in Conns :
    (c # d /\ mux[c] # "none" /\ mux[d] # "none" /\ sref[c] # 0) => sref[c] # sref[d]

\* C20: a read error takes the session out of its read loop with nothing but
\* its teardown left to run, and the teardown does run; when it has run,
\* GetStream of the session's key gives nil, and only a GetOrCreateStream call
\* for a key makes GetStream of that key give a Stream again.
C20_ReadErrorTeardown ==
  /\ [][/\ \A c \in Conns :
             (pc[c] = "read" /\ cause'[c] = "readErr") =>
               pc'[c] = "teardown" /\ key'[c] = key[c]
        /\ \A c \in Conns :
             (pc[c] = "teardown" /\ pc'[c] # "teardown") =>
               pc'[c] = "closing" /\ \E k \in Keys : k = key[c] /\ GetStream(k)' = 0
        /\ \A k \in Keys :
             (GetStream(k) = 0 /\ GetStream(k)' # 0) =>
               \E c \in Conns : pc[c] = "publisher" /\ pc'[c] = "readerInit" /\ key[c] = k
       ]_vars
  /\ \A c \in Conns :
       (pc[c] = "teardown" /\ cause[c] = "readErr") ~> (pc[c] = "closing")

\* a session that a read error ended has run its teardown, which removed the
\* Stream the session had created; its key has no entry
C20_Witness ==
  \E c \in Conns, k \in Keys :
    /\ pc[c] = "closing" /\ cause[c] = "readErr" /\ removeCalls[c] = 1
    /\ removed[k] = c /\ GetStream(k) = 0


(* --------------------------------------------- codec parameters of a Stream *)
\* a step of the loop over reader.Tracks() in which connection c runs
\* SetVideoParams or SetAudioParams on its Stream
SetsParams(c) ==
  /\ pc[c] = "readerInit"
  /\ pc'[c] \in {"startMuxer", "loop"}
  /\ st'[sref[c]] # st[sref[c]]

\* C28: SetVideoParams and SetAudioParams never run on a Stream whose ready
\* flag is already set, a second publish connection on an active key included
C28_ParamsBeforeStart ==
  [][\A c \in Conns : SetsParams(c) => ~st[sref[c]].muxerReady]_vars

(* ------------------------------------- locks held at reads and writes *)
\* the field of a Stream that the /live/ handler reads in its next step
HandlerReads ==
  IF hpc = "looked" /\ href # 0 THEN {<<href, "Active">>}
  ELSE IF hpc = "checked" THEN {<<href, "Muxer">>}
  ELSE {}

\* the locks the handler holds at that read: GetStream has released m.mu
HandlerLocks == IF hpc = "idle" THEN {"m.mu"} ELSE {}

\* the field of a Stream that connection c writes in its next step:
\* RemoveStream's stream.Active = false, StartMuxer's s.Muxer = &gohlslib.Muxer{}
SessionWrites(c) ==
  IF pc[c] = "teardown" /\ streams[key[c]] # 0 THEN {<<streams[key[c]], "Active">>}
  ELSE IF pc[c] = "startMuxer" /\ ~st[sref[c]].muxerReady THEN {<<sref[c], "Muxer">>}
  ELSE {}

\* the locks connection c holds at that write
SessionLocks(c) == IF pc[c] \in {"publisher", "teardown"} THEN {"m.mu"} ELSE {}

\* C30: the handler never reads a field of a Stream that a session is writing
\* unless the two hold a common lock
C30_ReadsExcluded ==
  \A c \in Conns :
    HandlerReads \cap SessionWrites(c) # {} => HandlerLocks \cap SessionLocks(c) # {}

(* ------------------------------------------------- the ready flag of a Stream *)
\* a step in which connection c returns from Stream.StartMuxer's Start() call
StartReturns(c) == pc[c] = "muxStarting" /\ pc'[c] # "muxStarting"

\* C24: the ready flag is set only by the step in which Start() returned nil,
\* which also records the anchor, and a failed Start() leaves the flag as it
\* was; so a ready Stream has a segmenter handle and a recorded anchor, and a
\* write adds its presentation time to a recorded anchor
C24_ReadyAfterStart ==
  /\ [](\A i \in Conns : st[i].muxerReady => st[i].Muxer # 0 /\ st[i].ntpStart # NoAnchor)
  /\ [][
        /\ \A i \in Conns :
             (~st[i].muxerReady /\ st'[i].muxerReady) =>
               \E c \in Conns : /\ StartReturns(c) /\ sref[c] = i /\ pc'[c] = "loop"
                                /\ mux'[st[i].Muxer] \in {"started", "closed"}
                                /\ st'[i].ntpStart = now
        /\ \A c \in Conns :
             (StartReturns(c) /\ pc'[c] = PublisherExit("startFail")) => st' = st
        /\ \A c \in Conns :
             (pc[c] = "read" /\ pc'[c] = "writing") =>
               /\ st[sref[c]].ntpStart # NoAnchor
               /\ wts'[c] = st[sref[c]].ntpStart + Pts(units'[c])
     ]_vars

\* a Start() that failed with the flag unset, and a Stream that is ready
C24_Witness ==
  /\ \E c \in Conns : cause[c] = "startFail" /\ sref[c] # 0 /\ ~st[sref[c]].muxerReady
  /\ \E c \in Conns : pc[c] = "writing" /\ st[sref[c]].muxerReady

(* --------------------------------- one connection and its write operations *)
\* error entries a write operation logs when the Muxer's write ends with
\* `res`: WriteH264 suppresses the errors about the DTS, WriteAAC logs every
\* error, and the deferred recover() of both logs a fault
Logged(kind, res) ==
  IF res = "ok" THEN 0
  ELSE IF res = "benign" /\ kind = "video" THEN 0
  ELSE 1

\* reader.Read() dispatches a unit; the observer notes its kind
ReadUnitObs(c) ==
  \E kind \in UnitKinds :
    /\ ReadUnitKind(c, OneUnits, kind)
    /\ wkind' = [wkind EXCEPT ![c] = kind]
    /\ UNCHANGED <<wres, wlog>>

\* the write operation returns; the observer notes the result and the log
WriteReturnObs(c) ==
  \E res \in WriteResults :
    /\ WriteReturnAs(c, res)
    /\ wres' = [wres EXCEPT ![c] = res]
    /\ wlog' = [wlog EXCEPT ![c] = @ + Logged(wkind[c], res)]
    /\ UNCHANGED wkind

\* the connection that is followed
OneConns == {1}

OneStep ==
  \E c \in OneConns :
    \/ Handshake(c) \/ Negotiate(c) \/ GetOrCreate(c) \/ ReaderInitFrom(c, OneTrackLists)
    \/ StartMuxerBuild(c) \/ StartMuxerStart(c) \/ LoopCheck(c)
    \/ ReadError(c) \/ ReadPanic(c) \/ ReadUnitObs(c) \/ WriteReturnObs(c)
    \/ Teardown(c) \/ Closing(c)

NextOne == OneStep \/ Tick

\* one connection's goroutine under a running clock, its publisher announcing
\* up to OneTracks tracks and sending up to OneUnits units
SpecOne == InitServe /\ [][NextOne]_vars

\* a step in which reader.Read() hands a unit to a registered callback of
\* connection c, whose write operation finds the Stream not ready
DroppedUnit(c) ==
  /\ pc[c] = "read" /\ units'[c] = units[c] + 1
  /\ Callbacks(c, wkind'[c]) > 0
  /\ ~st[sref[c]].muxerReady \/ st[sref[c]].Muxer = 0

\* C23: a unit whose write operation finds the ready flag unset or no Muxer
\* is dropped: nothing is written to a Muxer, the Stream (its bitrate
\* accumulator, last-update time and rate included) is unchanged, nothing is
\* logged, and the session is back at the top of its read loop
C23_DroppedNoEffect ==
  [][\A c \in Conns : DroppedUnit(c) =>
       /\ st' = st /\ mux' = mux /\ streams' = streams
       /\ wmux'[c] = 0 /\ wlog' = wlog /\ wres' = wres
       /\ pc'[c] = "loop"]_vars

\* an audio unit of an audio-only publisher has been dropped
C23_Witness ==
  \E c \in Conns :
    /\ pc[c] = "loop" /\ units[c] > 0 /\ wkind[c] = "audio" /\ acb[c] > 0
    /\ ~st[sref[c]].muxerReady /\ wlog[c] = 0

\* results of the Muxer's write that are failures or faults
WriteFailures == WriteResults \ {"ok"}

\* a step in which a write operation of connection c returns
WriteEnds(c) == pc[c] = "writing" /\ pc'[c] # "writing"

\* C25: a write that failed or faulted leaves the session in its read loop
\* with its callbacks, its Stream registered and active, and no fault passed
\* on to the caller; and a unit read after it is written like any other
C25_WriteFailureSurvived ==
  [][\A c \in Conns :
       /\ (WriteEnds(c) /\ wres'[c] \in WriteFailures) =>
            /\ pc'[c] = "loop" /\ cause'[c] = "none"
            /\ vcb'[c] = vcb[c] /\ acb'[c] = acb[c]
            /\ streams' = streams /\ st' = st /\ mux' = mux
            /\ streams[key[c]] = sref[c] /\ st[sref[c]].Active
       /\ (pc[c] = "read" /\ units'[c] = units[c] + 1 /\ wres[c] \in WriteFailures
             /\ Callbacks(c, wkind'[c]) > 0) =>
            /\ pc'[c] = "writing"
            /\ wmux'[c] = st[sref[c]].Muxer /\ wmux'[c] # 0
     ]_vars

\* a unit is being written after the write before it failed or faulted
C25_Witness ==
  \E c \in Conns :
    /\ pc[c] = "writing" /\ units[c] > 1
    /\ wres[c] \in {"hard", "panic"} /\ wlog[c] > 0

\* C26: the write operations log alike for video and audio units: nothing for
\* a success or for an error about a non-monotonic timestamp, and one error
\* entry for every other failure
C26_SameClassification ==
  [][\A c \in Conns : WriteEnds(c) =>
       wlog'[c] = wlog[c] + (IF wres'[c] \in {"hard", "panic"} THEN 1 ELSE 0)]_vars

\* C29: whatever tracks the publisher announces, a connection has at most one
\* video callback and at most one audio callback registered
C29_OneTrackPerKind ==
  \A c \in Conns : vcb[c] <= 1 /\ acb[c] <= 1

(* ------------------------------------------------------ the acceptor alone *)
\* Start() on a server that is not running, Stop() having returned before
StartAgain == StartUpTo(AccStarts)

\* variant: running is set before net.Listen is called
RunningAfterBindFail_SetEarly(r) == TRUE

\* r.running when Start() returns the error of net.Listen: it is assigned
\* only after the test of that error
RunningAfterBindFail(r) == r

\* Start() on a running server: if r.running { return nil }
StartNoop ==
  /\ ctl = "idle"
  /\ running
  /\ ctlRet' = "startNoop"
  /\ UNCHANGED <<accVars, ctlVars, loopVars, sesVars, regVars, now, histVars,
                 keyVars, httpVars, snap, rateSeen, obsVars, lpc, hrun, hlisten>>

\* Start() on a server that is not running, net.Listen failing (the port is
\* in use): the error is returned
StartBindFail ==
  /\ ctl = "idle"
  /\ ~running
  /\ running' = RunningAfterBindFail(running)
  /\ ctlRet' = "startErr"
  /\ UNCHANGED <<listener, openLis, wg, ctlVars, loopVars, sesVars, regVars, now, histVars,
                 keyVars, httpVars, snap, rateSeen, obsVars, lpc, hrun, hlisten>>

\* Stop() on a server that is not running: r.mu.Unlock(); return nil
StopNoop ==
  /\ ctl = "idle"
  /\ ~running
  /\ ctlRet' = "stopNoop"
  /\ UNCHANGED <<accVars, ctlVars, loopVars, sesVars, regVars, now, histVars,
                 keyVars, httpVars, snap, rateSeen, obsVars, lpc, hrun, hlisten>>

NextAccept ==
  \/ StartAgain
  \/ StartNoop
  \/ StartBindFail
  \/ StopNoop
  \/ StopClearRunning
  \/ StopCloseListener
  \/ StopWaitReturn
  \/ \E g \in Gens : LoopAcceptConn(g)
  \/ \E g \in Gens : LoopAcceptErr(g)
  \/ \E g \in Gens : LoopCheckRunning(g)
  \/ \E g \in Gens : LoopSpawn(g)
  \/ \E c \in Conns : Handshake(c)
  \/ \E c \in Conns : Negotiate(c)
  \/ \E c \in Conns : Closing(c)

\* Start() and Stop() called one after the other on one RTMPServer, its accept
\* loops, and the connections up to their entry into handlePublisher
SpecAccept == Init /\ [][NextAccept]_vars

\* C22: an accept loop whose Accept() failed because Stop() closed the
\* listener finds the running flag cleared and returns; it does not log the
\* error and go back to Accept(), and it spawns nothing more
C22_LoopExitsOnClose ==
  [][\A g \in Gens :
       (loopPc[g] = "gotErr" /\ loopPc'[g] # "gotErr") =>
         loopPc'[g] = "exited" /\ wg' = wg /\ pc' = pc]_vars

(* --------------------------------------------------- the life of a session *)
\* how far a connection's goroutine has come
Stage(p) ==
  CASE p = "init" -> 0
    [] p = "handshake" -> 1
    [] p = "negotiate" -> 2
    [] p = "publisher" -> 3
    [] p = "readerInit" -> 4
    [] p = "startMuxer" -> 5
    [] p = "muxStarting" -> 6
    [] p \in {"loop", "read", "writing"} -> 7
    [] p = "teardown" -> 8
    [] p = "closing" -> 9
    [] p = "closed" -> 10

\* C27: a session never goes back to an earlier stage; a closed session stays
\* closed and makes no registry call, write or read; and every session that
\* was started comes to be closed
C27_ForwardToClosed ==
  /\ [][\A c \in Conns :
          /\ Stage(pc'[c]) >= Stage(pc[c])
          /\ pc[c] = "closed" =>
               /\ pc'[c] = "closed"
               /\ getCalls'[c] = getCalls[c] /\ removeCalls'[c] = removeCalls[c]
               /\ doneCalls'[c] = doneCalls[c]
               /\ units'[c] = units[c] /\ wmux'[c] = wmux[c] /\ sref'[c] = 0
     ]_vars
  /\ \A c \in Conns : (pc[c] # "init") ~> (pc[c] = "closed")

\* a session that streamed is closed while another is writing
C27_Witness ==
  \E c, d \in Conns :
    /\ pc[c] = "closed" /\ removeCalls[c] = 1 /\ doneCalls[c] = 1
    /\ pc[d] = "writing"

(* ----------------------------------------------------------------- shutdown *)
NextStop ==
  \/ SessionStep
  \/ StopClearRunning
  \/ StopCloseListener
  \/ StopWaitReturn
  \/ \E g \in Gens : LoopAcceptErr(g)
  \/ \E g \in Gens : LoopCheckRunning(g)

\* Stop() once called runs on, and so does the accept loop
FairStop ==
  /\ WF_vars(StopCloseListener)
  /\ WF_vars(StopWaitReturn)
  /\ \A g \in Gens : WF_vars(LoopAcceptErr(g) \/ LoopCheckRunning(g))

\* a started server whose connections are all accepted, and a call of Stop()
SpecStop == InitServe /\ [][NextStop]_vars /\ FairSessions /\ FairStop

\* C21: once Stop() has cleared the running flag, a session that comes to the
\* top of its read loop leaves it for its teardown without another read; and
\* every session comes to be closed and Stop() returns
C21_ShutdownTerminates ==
  /\ [][\A c \in Conns :
          (~running /\ pc[c] = "loop" /\ pc'[c] # "loop") =>
            pc'[c] = "teardown" /\ cause'[c] = "shutdown" /\ units'[c] = units[c]
     ]_vars
  /\ ~running ~> (stopReturned /\ \A c \in Conns : pc[c] = "closed")

\* Stop() waits while a session that has read a unit leaves its read loop
\* because the flag is cleared
C21_Witness ==
  /\ ctl = "stopWaiting"
  /\ \E c \in Conns : pc[c] = "teardown" /\ cause[c] = "shutdown" /\ units[c] > 0

\* C38: whatever the path, extractStreamKey returns a key that is not the
\* empty string
C38_KeyNeverEmpty == xkey # <<>>

\* C37: an accept loop holds a connection only from the listener that the
\* Start() call which started the loop has bound
C37_OneAcceptLoop ==
  \A g \in Gens : loopPc[g] = "gotConn" => loopLis[g] = g

(* ------------------------------------------- the active flag and the map *)
\* C32: every Stream in the map is active, so StreamCount() is the number of
\* map entries; a Stream that is inactive is in the map under no key; and the
\* Stream that GetStream returns is active when it is returned
C32_MapEntriesActive ==
  /\ [](/\ \A k \in Keys : streams[k] # 0 => st[streams[k]].Active
        /\ StreamCount = Cardinality({k \in Keys : streams[k] # 0})
        /\ \A i \in Conns : (st[i].Key # NoKey /\ ~st[i].Active) =>
             \A k \in Keys : streams[k] # i)
  /\ [][(hpc = "idle" /\ hpc' = "looked" /\ href' # 0) => st'[href'].Active]_vars

\* the handler holds a Stream that GetStream returned and that a RemoveStream
\* has since made inactive and deleted, while another Stream is in the map
C32_Witness ==
  /\ hpc = "looked" /\ href # 0 /\ ~st[href].Active
  /\ \E k \in Keys : streams[k] # 0 /\ streams[k] # href

\* C33: when the /live/ handler calls the request handler of a Muxer, Close
\* has not been called on that Muxer
C33_NoDelegationAfterClose ==
  [][(hpc = "checked" /\ hpc' = "delegating") => mux[hmux'] # "closed"]_vars

\* C34: a write operation never hands a unit to a Muxer on which Close has
\* been called
C34_NoWriteAfterClose ==
  [][\A c \in Conns : (pc[c] = "read" /\ pc'[c] = "writing") => mux[wmux'[c]] # "closed"]_vars

\* C35: once no session holds a Stream any more (each has run its deferred
\* RemoveStream), every Muxer that was constructed has been closed
C35_NoSegmenterLeak ==
  (\A c \in Conns : sref[c] = 0) => \A m \in Conns : mux[m] \in {"none", "closed"}

(* ------------------------------------------------------------ the locks *)
\* r.mu of the RTMPServer, m.mu of the Manager (a sync.RWMutex) and brateMu
\* of a Stream; a holding is a pair of lock and mode
NoLock == <<"-", "-">>
SessionTasks == {"s1", "s2"}

\* variant: Stop() unlocks r.mu by a defer, so it holds it while it waits
HeldInStop_Deferred(p) == {<<"r.mu", "w">>}

\* what Stop() holds after r.mu.Unlock(), in listener.Close() and wg.Wait()
HeldInStop(p) == {}

\* the locks a task holds at position p of its calls
HeldAt(p) ==
  CASE p \in {"goc_in", "rm_in"} -> {<<"m.mu", "w">>}
    [] p \in {"chk_in", "st_in", "ac_in"} -> {<<"r.mu", "w">>}
    [] p = "wr_in" -> {<<"brateMu", "w">>}
    [] p \in {"ls_in", "br_acq", "gs_in"} -> {<<"m.mu", "r">>}
    [] p = "br_in" -> {<<"m.mu", "r">>, <<"brateMu", "w">>}
    [] p \in {"st_close", "st_wait"} -> HeldInStop(p)
    [] OTHER -> {}

\* the lock a task at position p has called Lock() or RLock() on
Wants(p) ==
  CASE p \in {"goc_acq", "rm_acq"} -> <<"m.mu", "w">>
    [] p \in {"chk_acq", "st_acq", "ac_acq"} -> <<"r.mu", "w">>
    [] p \in {"wr_acq", "br_acq"} -> <<"brateMu", "w">>
    [] p \in {"ls_acq", "gs_acq"} -> <<"m.mu", "r">>
    [] OTHER -> NoLock

\* the tasks that keep task t from getting the lock it wants: the holders of
\* the lock in a conflicting mode and, for RLock() on a lock that is held, the
\* tasks that wait in Lock()
LockBlockers(t) ==
  LET w == Wants(lpc[t])
      holders == {u \in Tasks \ {t} :
                    \E h \in HeldAt(lpc[u]) : h[1] = w[1] /\ (w[2] = "w" \/ h[2] = "w")}
      readers == {u \in Tasks \ {t} : <<w[1], "r">> \in HeldAt(lpc[u])}
      writers == {u \in Tasks \ {t} : Wants(lpc[u]) = <<w[1], "w">>}
  IN IF w = NoLock THEN {}
     ELSE IF w[2] = "r" /\ readers # {} /\ writers # {} THEN holders \cup writers
     ELSE holders

\* the session goroutines that r.wg.Wait() waits for
Unfinished == {s \in SessionTasks : lpc[s] \notin {"idle", "done"}}

\* the tasks that a task waits for
Blockers(t) == IF lpc[t] = "st_wait" THEN Unfinished ELSE LockBlockers(t)

\* the positions a task can go to from position p
Succ(p) ==
  CASE p = "idle" -> {"goc_acq", "ls_acq", "gs_acq", "st_acq", "ac_acq"}
    [] p = "goc_acq" -> {"goc_in"}
    [] p = "goc_in" -> {"chk_acq"}
    [] p = "chk_acq" -> {"chk_in"}
    [] p = "chk_in" -> IF running THEN {"read"} ELSE {"rm_acq"}
    [] p = "read" -> {"wr_acq", "chk_acq", "rm_acq"}
    [] p = "wr_acq" -> {"wr_in"}
    [] p = "wr_in" -> {"chk_acq"}
    [] p = "rm_acq" -> {"rm_in"}
    [] p = "rm_in" -> {"done"}
    [] p = "ls_acq" -> {"ls_in"}
    [] p = "ls_in" -> {"br_acq", "idle"}
    [] p = "br_acq" -> {"br_in"}
    [] p = "br_in" -> {"ls_in"}
    [] p = "gs_acq" -> {"gs_in"}
    [] p = "gs_in" -> {"idle"}
    [] p = "st_acq" -> {"st_in"}
    [] p = "st_in" -> {"st_close"}
    [] p = "st_close" -> {"st_wait"}
    [] p = "st_wait" -> {"done"}
    [] p = "ac_acq" -> {"ac_in"}
    [] p = "ac_in" -> IF running THEN {"idle"} ELSE {"done"}
    [] OTHER -> {}

\* the first call of each task: a session calls GetOrCreateStream, the
\* control plane GetAllStreams, the /live/ handler GetStream, the stopper
\* Stop(), the accept loop r.mu.Lock() after Accept() failed
FirstCall(t) ==
  CASE t \in SessionTasks -> "goc_acq"
    [] t = "lister" -> "ls_acq"
    [] t = "handler" -> "gs_acq"
    [] t = "stopper" -> "st_acq"
    [] t = "acceptor" -> "ac_acq"

\* a task makes its next call, gets the lock it waited for, or unlocks
LockStep(t) ==
  /\ Blockers(t) = {}
  /\ t \in SessionTasks /\ lpc[t] = "idle" => running
  /\ t = "acceptor" /\ lpc[t] = "idle" => lpc["stopper"] \in {"st_wait", "done"}
  /\ \E q \in Succ(lpc[t]) :
       /\ lpc[t] = "idle" => q = FirstCall(t)
       /\ lpc' = [lpc EXCEPT ![t] = q]
  /\ running' = IF lpc[t] = "st_in" THEN FALSE ELSE running
  /\ UNCHANGED <<listener, openLis, wg, ctlVars, loopVars, sesVars, regVars, now, histVars,
                 keyVars, httpVars, snap, rateSeen, obsVars, hrun, hlisten, ctlRet>>

NextLocks == \E t \in Tasks : LockStep(t)

\* two sessions, a caller of GetAllStreams, the /live/ handler, a caller of
\* Stop() and the accept loop, each reduced to its Lock() and Unlock() calls
SpecLocks == InitServe /\ [][NextLocks]_vars

\* r.mu before m.mu before brateMu
LockRank(l) == CASE l = "r.mu" -> 1 [] l = "m.mu" -> 2 [] l = "brateMu" -> 3

\* C36: a task that waits for a lock holds only locks that come before it in
\* one order of the locks; and there is no set of tasks each of which waits
\* for a lock held, or for the return, of a task of the set
C36_NoLockCycle ==
  /\ \A t \in Tasks :
       Wants(lpc[t]) # NoLock =>
         \A h \in HeldAt(lpc[t]) : LockRank(h[1]) < LockRank(Wants(lpc[t])[1])
  /\ ~ \E S \in SUBSET Tasks :
         /\ S # {}
         /\ \A t \in S : Blockers(t) # {} /\ Blockers(t) \subseteq S

\* GetAllStreams waits for brateMu under m.mu while a session holds brateMu,
\* and Stop() waits for that session
C36_Witness ==
  /\ lpc["lister"] = "br_acq"
  /\ \E s \in SessionTasks : lpc[s] = "wr_in"
  /\ lpc["stopper"] = "st_wait"

(* --------------------------------------------- the acceptor's life cycle *)
\* C31: Start() on a running server binds no listener and starts no accept
\* loop; Start() whose net.Listen fails returns the error, leaves the
\* running flag false and starts no accept loop; Stop() on a server that is
\* not running returns at once, closing nothing and waiting for nothing
C31_AcceptorLifecycle ==
  [][/\ (ctlRet' = "startNoop" /\ ctlRet # "startNoop") =>
          /\ running /\ running'
          /\ listener' = listener /\ openLis' = openLis
          /\ loopPc' = loopPc /\ loopLis' = loopLis /\ starts' = starts
     /\ (ctlRet' = "startErr" /\ ctlRet # "startErr") =>
          /\ ~running /\ ~running'
          /\ listener' = listener /\ openLis' = openLis
          /\ loopPc' = loopPc /\ loopLis' = loopLis /\ starts' = starts
     /\ (ctlRet' = "stopNoop" /\ ctlRet # "stopNoop") =>
          /\ ~running /\ ~running'
          /\ openLis' = openLis /\ ctl' = "idle" /\ stopReturned' = stopReturned
          /\ wg' = wg
    ]_vars

\* net.Listen has failed in a Start() called after a Stop() that returned,
\* while the accept loop of the first Start() has not returned yet
C31_Witness ==
  /\ ctlRet = "startErr" /\ ~running /\ stopReturned
  /\ \E g \in Gens : loopPc[g] \in {"inAccept", "gotErr"}

(* ------------------------------------------ HTTPServer.Start and Stop *)
\* startServer on a server that is not running: go func() { ListenAndServe }
\* is started, h.running = true, return nil
HttpStart ==
  /\ ~hrun
  /\ hrun' = TRUE
  /\ hlisten' = "pending"
  /\ ctlRet' = "httpNil"
  /\ UNCHANGED <<accVars, ctlVars, loopVars, sesVars, regVars, now, histVars,
                 keyVars, httpVars, snap, rateSeen, obsVars, lpc>>

\* the goroutine's ListenAndServe binds the address and serves
HttpListenOk ==
  /\ hlisten = "pending"
  /\ hlisten' = "listening"
  /\ UNCHANGED <<accVars, ctlVars, loopVars, sesVars, regVars, now, histVars,
                 keyVars, httpVars, snap, rateSeen, obsVars, lpc, hrun, ctlRet>>

\* the goroutine's ListenAndServe returns an error other than ErrServerClosed
\* (the port is in use): logger.Error, and the goroutine ends
HttpListenFail ==
  /\ hlisten = "pending"
  /\ hlisten' = "failed"
  /\ UNCHANGED <<accVars, ctlVars, loopVars, sesVars, regVars, now, histVars,
                 keyVars, httpVars, snap, rateSeen, obsVars, lpc, hrun, ctlRet>>

\* Stop() on a running server: h.server.Close(); h.running = false
HttpStop ==
  /\ hrun
  /\ hrun' = FALSE
  /\ hlisten' = "closed"
  /\ ctlRet' = "httpStopped"
  /\ UNCHANGED <<accVars, ctlVars, loopVars, sesVars, regVars, now, histVars,
                 keyVars, httpVars, snap, rateSeen, obsVars, lpc>>

NextHttp ==
  \/ NextAccept
  \/ HttpStart
  \/ HttpListenOk
  \/ HttpListenFail
  \/ HttpStop

\* the RTMPServer and the HTTPServer that the application starts and stops
SpecHttp == Init /\ [][NextHttp]_vars

\* C39: the running flag of the HTTPServer is not set once its listen call
\* has failed
C39_RunningMeansServing == ~(hrun /\ hlisten = "failed")
====
